---- MODULE Spec2Model ----
(***************************************************************************)
(* A model of the RAG-lite enrichment pipeline (rag_lite.py) and of its    *)
(* HTTP caller (main.py).  Python strings are TLA+ strings; the string     *)
(* operations the code uses (lower, strip, isdigit, count, slicing, split, *)
(* join) are computed character by character.                              *)
(***************************************************************************)
EXTENDS Integers, Sequences, FiniteSets, TLC

(***************************************************************************)
(* Python string and list primitives.                                      *)
(***************************************************************************)
Min(a, b) == IF a <= b THEN a ELSE b
Max(a, b) == IF a >= b THEN a ELSE b

\* s[i] as a one-character string (1-based).
Ch(s, i) == SubSeq(s, i, i)

\* Python's s[:n] on a string or a list: n < 0 counts from the end.
PySlice(s, n) ==
    IF n >= 0 THEN SubSeq(s, 1, Min(n, Len(s)))
    ELSE SubSeq(s, 1, Max(0, Len(s) + n))

\* Python's s[i:j] for 0 <= i <= j.
PyRange(s, i, j) == SubSeq(s, i + 1, Min(j, Len(s)))

UpperChars == "ABCDEFGHIJKLMNOPQRSTUVWXYZ"
LowerChars == "abcdefghijklmnopqrstuvwxyz"
DigitChars == "0123456789"

UpperSet == {Ch(UpperChars, i) : i \in 1..Len(UpperChars)}
DigitSet == {Ch(DigitChars, i) : i \in 1..Len(DigitChars)}
IsSpace(c) == c \in {" ", "\n", "\t", "\r"}

LowerCh(c) ==
    IF c \in UpperSet
    THEN Ch(LowerChars, CHOOSE i \in 1..Len(UpperChars) : Ch(UpperChars, i) = c)
    ELSE c

\* str.lower(), computed by halves to keep the evaluation shallow.
RECURSIVE Lower(_)
Lower(s) ==
    IF Len(s) = 0 THEN ""
    ELSE IF Len(s) = 1 THEN LowerCh(s)
    ELSE Lower(SubSeq(s, 1, Len(s) \div 2))
         \o Lower(SubSeq(s, Len(s) \div 2 + 1, Len(s)))

\* str.strip()
Strip(s) ==
    IF \A i \in 1..Len(s) : IsSpace(Ch(s, i)) THEN ""
    ELSE SubSeq(s,
           CHOOSE i \in 1..Len(s) :
               ~IsSpace(Ch(s, i)) /\ \A j \in 1..(i - 1) : IsSpace(Ch(s, j)),
           CHOOSE i \in 1..Len(s) :
               ~IsSpace(Ch(s, i)) /\ \A j \in (i + 1)..Len(s) : IsSpace(Ch(s, j)))

\* str.isdigit()
IsDigit(s) == Len(s) > 0 /\ \A i \in 1..Len(s) : Ch(s, i) \in DigitSet

StartsAt(text, sub, i) == SubSeq(text, i, i + Len(sub) - 1) = sub

\* str.count(sub): non-overlapping occurrences, scanning from the left.
\* The scan takes the first occurrence at or after i and resumes behind it.
RECURSIVE CountFrom(_, _, _)
CountFrom(occ, width, i) ==
    LET rest == {j \in occ : j >= i}
    IN  IF rest = {} THEN 0
        ELSE LET first == CHOOSE j \in rest : \A k \in rest : j <= k
             IN  1 + CountFrom(occ, width, first + width)

Count(text, sub) ==
    IF sub = "" THEN Len(text) + 1
    ELSE CountFrom({i \in 1..(Len(text) - Len(sub) + 1) : StartsAt(text, sub, i)},
                   Len(sub), 1)

\* sep.join(parts)
RECURSIVE Join(_, _)
Join(parts, sep) ==
    IF parts = <<>> THEN ""
    ELSE IF Len(parts) = 1 THEN parts[1]
    ELSE Join(SubSeq(parts, 1, Len(parts) \div 2), sep) \o sep
         \o Join(SubSeq(parts, Len(parts) \div 2 + 1, Len(parts)), sep)

\* dict.get(key, default) on a mapping with string keys.
Get(d, k, default) == IF k \in DOMAIN d THEN d[k] ELSE default

\* sum of f over a finite set
RECURSIVE SumOver(_, _)
SumOver(S, f) ==
    IF S = {} THEN 0
    ELSE LET x == CHOOSE y \in S : TRUE IN f[x] + SumOver(S \ {x}, f)

(***************************************************************************)
(* normalize_keywords and the fixed baseline terms.                        *)
(***************************************************************************)
stop_words ==
    {"the", "a", "an", "in", "on", "of", "is", "are", "and", "or", "to", "from",
     "for", "with", "by", "at", "as", "be", "this", "that", "it", "if", "not",
     "but", "can", "get", "set", "new", "old", "all", "any", "has", "had"}

MinKeywordLen == 2

NormalizeOne(keyword) == Strip(Lower(keyword))

KeepKeyword(k) == Len(k) > MinKeywordLen /\ k \notin stop_words /\ ~IsDigit(k)

normalize_keywords(keywords) ==
    {NormalizeOne(k) : k \in {r \in keywords : KeepKeyword(NormalizeOne(r))}}

BaselineTerms ==
    {"index", "optimization", "performance", "query", "sql", "jpa", "hibernate"}

(***************************************************************************)
(* calculate_relevance_score.  The code computes the float                 *)
(*   sum(count * len(k) / 5) * (1 + 0.1 * matched)   (bonus if matched>1); *)
(* the model keeps it exact as an integer number of fiftieths.             *)
(***************************************************************************)
KeywordLenDivisor == 5

\* score *= 1 + len(matched_keywords) * 0.1, when more than one keyword matched
WithBonus(base, matched) ==
    IF matched > 1 THEN (base * (10 + matched)) \div 10 ELSE base

\* The loop over the keywords: count * len(keyword) / 5 for each that occurs.
ScoreOfMatched(text_lower, matched_keywords) ==
    WithBonus((50 \div KeywordLenDivisor)
                  * SumOver(matched_keywords,
                            [k \in matched_keywords |->
                                Count(text_lower, Lower(k)) * Len(k)]),
              Cardinality(matched_keywords))

ScoreOfLower(text_lower, keywords) ==
    ScoreOfMatched(text_lower, {k \in keywords : Count(text_lower, Lower(k)) > 0})

calculate_relevance_score(text, keywords) ==
    IF text = "" \/ keywords = {} THEN 0 ELSE ScoreOfLower(Lower(text), keywords)

(***************************************************************************)
(* chunk_knowledge_base.                                                   *)
(***************************************************************************)
MinParagraphChars == 50
DefaultChunkSize == 300
DefaultOverlap == 50

\* str.split(): the maximal runs of non-whitespace characters, computed by
\* cutting at a whitespace character near the middle.
SplitReach == 40

RECURSIVE Words(_)
Words(s) ==
    LET mid == (Len(s) + 1) \div 2
        near == {j \in Max(1, mid - SplitReach)..Min(Len(s), mid + SplitReach) :
                    IsSpace(Ch(s, j))}
        any == IF near # {} THEN near ELSE {j \in 1..Len(s) : IsSpace(Ch(s, j))}
    IN  IF s = "" THEN <<>>
        ELSE IF any = {} THEN <<s>>
        ELSE LET cut == CHOOSE j \in any : TRUE
             IN  Words(SubSeq(s, 1, cut - 1)) \o Words(SubSeq(s, cut + 1, Len(s)))

\* The end of the match of \n\s*\n that starts at the newline at p: the last
\* newline that only whitespace separates from p, or 0 if there is none.
SeparatorEnd(s, p) ==
    LET nl == {j \in (p + 1)..Len(s) :
                  Ch(s, j) = "\n" /\ \A k \in p..j : IsSpace(Ch(s, k))}
    IN  IF nl = {} THEN 0 ELSE CHOOSE j \in nl : \A k \in nl : k <= j

\* re.split(r'\n\s*\n', content): cut at the leftmost match, then go on
\* behind it.
RECURSIVE SplitFrom(_, _)
SplitFrom(s, start) ==
    LET seps == {p \in start..Len(s) : Ch(s, p) = "\n" /\ SeparatorEnd(s, p) > 0}
    IN  IF seps = {} THEN <<SubSeq(s, start, Len(s))>>
        ELSE LET p == CHOOSE q \in seps : \A r \in seps : q <= r
             IN  <<SubSeq(s, start, p - 1)>> \o SplitFrom(s, SeparatorEnd(s, p) + 1)

Paragraphs(content) == SplitFrom(content, 1)

\* range(0, n, step) as the ascending sequence of its values (step # 0).
RangeStarts(n, step) ==
    IF step > 0
    THEN [k \in 1..((n + step - 1) \div step) |-> (k - 1) * step]
    ELSE <<>>

\* windows that step by the whole chunk_size
WindowsDisjoint(words, chunk_size, overlap) ==
    LET starts == RangeStarts(Len(words), chunk_size)
    IN  [k \in 1..Len(starts) |-> PyRange(words, starts[k], starts[k] + chunk_size)]

\* The windows words[i:i + chunk_size] for i in range(0, len(words), step).
Windows(words, chunk_size, overlap) ==
    LET starts == RangeStarts(Len(words), chunk_size - overlap)
    IN  [k \in 1..Len(starts) |-> PyRange(words, starts[k], starts[k] + chunk_size)]

\* The chunks one paragraph contributes.
ParagraphChunks(para, chunk_size, overlap) ==
    IF Len(Strip(para)) < MinParagraphChars THEN <<>>
    ELSE LET words == Words(para)
         IN  IF Len(words) <= chunk_size THEN <<Strip(para)>>
             ELSE LET w == Windows(words, chunk_size, overlap)
                  IN  [k \in 1..Len(w) |-> Strip(Join(w[k], " "))]

RECURSIVE ConcatAll(_)
ConcatAll(seqs) ==
    IF seqs = <<>> THEN <<>> ELSE Head(seqs) \o ConcatAll(Tail(seqs))

chunk_knowledge_base(content, chunk_size, overlap) ==
    IF content = "" THEN <<>>
    ELSE LET paragraphs == Paragraphs(content)
         IN  ConcatAll([p \in 1..Len(paragraphs) |->
                           ParagraphChunks(paragraphs[p], chunk_size, overlap)])

(***************************************************************************)
(* The payload: a mapping with the optional keys queries, messages,        *)
(* repositories and entities, each an ordered sequence of mappings.        *)
(***************************************************************************)
PayloadKeys == <<"queries", "messages", "repositories", "entities">>
ItemKeys == <<"name", "content">>

\* str(item) of a mapping of strings, as Python prints a dict:
\* {'name': 'X', 'content': 'Y'}
PyStr(item) ==
    LET present == SelectSeq(ItemKeys, LAMBDA k : k \in DOMAIN item)
    IN  "{" \o Join([i \in 1..Len(present) |->
                        "'" \o present[i] \o "': '" \o item[present[i]] \o "'"], ", ")
        \o "}"

Section(payload, key) == IF key \in DOMAIN payload THEN payload[key] ELSE <<>>

(***************************************************************************)
(* search_payload_context.                                                 *)
(***************************************************************************)
SnippetChars == 400

Scored(snippet, score) == [snippet |-> snippet, score |-> score]

\* a block that forgets the cut at 400 characters
RepositorySnippetWhole(repo) ==
    "Repository: " \o Get(repo, "name", "Unknown") \o "\n" \o PyStr(repo) \o "..."

RepositorySnippet(repo) ==
    "Repository: " \o Get(repo, "name", "Unknown") \o "\n"
    \o PySlice(PyStr(repo), SnippetChars) \o "..."

EntitySnippet(entity) ==
    "Entity: " \o Get(entity, "name", "Unknown") \o "\n"
    \o PySlice(PyStr(entity), SnippetChars) \o "..."

QueryContent(query) ==
    "SQL: " \o Get(query, "sql", "") \o " Method: " \o Get(query, "method_name", "")

QuerySnippet(query) ==
    "Query: " \o Get(query, "method_name", "Unknown") \o "\n" \o QueryContent(query)

\* Every entry with its score, in encounter order (before the score > 0 test).
PayloadScored(keywords, payload) ==
    LET repos == Section(payload, "repositories")
        entities == Section(payload, "entities")
        queries == Section(payload, "queries")
    IN  [i \in 1..Len(repos) |->
            Scored(RepositorySnippet(repos[i]),
                   calculate_relevance_score(PyStr(repos[i]), keywords))]
        \o [i \in 1..Len(entities) |->
            Scored(EntitySnippet(entities[i]),
                   calculate_relevance_score(PyStr(entities[i]), keywords))]
        \o [i \in 1..Len(queries) |->
            Scored(QuerySnippet(queries[i]),
                   calculate_relevance_score(QueryContent(queries[i]), keywords))]

IsRelevant(c) == c.score > 0

\* relevant_snippets as appended: the entries whose score is > 0.
PayloadCandidates(keywords, payload) ==
    SelectSeq(PayloadScored(keywords, payload), IsRelevant)

\* list.sort(key=score, reverse=True): stable, so an entry goes behind every
\* entry whose score is at least its own.
\* an insertion in front of the entries of equal score: an unstable sort
InsertBeforeEqual(sorted, c) ==
    LET k == Cardinality({i \in 1..Len(sorted) : sorted[i].score > c.score})
    IN  SubSeq(sorted, 1, k) \o <<c>> \o SubSeq(sorted, k + 1, Len(sorted))

InsertByScore(sorted, c) ==
    LET k == Cardinality({i \in 1..Len(sorted) : sorted[i].score >= c.score})
    IN  SubSeq(sorted, 1, k) \o <<c>> \o SubSeq(sorted, k + 1, Len(sorted))

RECURSIVE SortByScore(_)
SortByScore(cands) ==
    IF cands = <<>> THEN <<>>
    ELSE InsertByScore(SortByScore(SubSeq(cands, 1, Len(cands) - 1)),
                       cands[Len(cands)])

Snippets(scored) == [i \in 1..Len(scored) |-> scored[i].snippet]

search_payload_context(keywords, payload, max_snippets) ==
    Snippets(PySlice(SortByScore(PayloadCandidates(keywords, payload)), max_snippets))

(***************************************************************************)
(* The knowledge-base cache and search_knowledge_base.                     *)
(***************************************************************************)
\* _kb_chunks: None, or the cached list of chunks.
Unset == [loaded |-> FALSE, chunks |-> <<>>]
Cached(chunks) == [loaded |-> TRUE, chunks |-> chunks]

\* A file of the knowledge base: missing, there but not readable as text
\* (open or read raise an error other than FileNotFoundError), or holding
\* text.
Missing == [exists |-> FALSE, readable |-> FALSE, content |-> ""]
Unreadable == [exists |-> TRUE, readable |-> FALSE, content |-> ""]
FileOf(content) == [exists |-> TRUE, readable |-> TRUE, content |-> content]

\* line 247: the file is opened only while _kb_chunks is None
ReadsFile(cache) == ~cache.loaded

\* lines 249-253: an error of open or read that is not FileNotFoundError
\* leaves load_and_chunk_knowledge_base
LoadRaises(cache, file) == ReadsFile(cache) /\ file.exists /\ ~file.readable

\* a load that reads again whenever the cached sequence is empty
CacheAfterLoadIfEmpty(cache, file) ==
    IF cache.chunks # <<>> THEN cache
    ELSE IF ~file.exists THEN Cached(<<>>)
    ELSE IF file.readable
         THEN Cached(chunk_knowledge_base(file.content, DefaultChunkSize, DefaultOverlap))
         ELSE cache

\* What load_and_chunk_knowledge_base leaves in _kb_chunks.
CacheAfterLoad(cache, file) ==
    IF ~ReadsFile(cache) THEN cache
    ELSE IF ~file.exists THEN Cached(<<>>)
    ELSE IF file.readable
         THEN Cached(chunk_knowledge_base(file.content, DefaultChunkSize, DefaultOverlap))
         ELSE cache

ChunkScored(keywords, chunks) ==
    [i \in 1..Len(chunks) |->
        Scored(chunks[i], calculate_relevance_score(chunks[i], keywords))]

ChunkCandidates(keywords, chunks) == SelectSeq(ChunkScored(keywords, chunks), IsRelevant)

\* search_knowledge_base, given the chunks load_and_chunk_knowledge_base returned
SearchChunks(keywords, chunks, max_snippets) ==
    IF chunks = <<>> THEN <<>>
    ELSE Snippets(PySlice(SortByScore(ChunkCandidates(keywords, chunks)), max_snippets))

(***************************************************************************)
(* format_context_for_injection and the injection of enrich_payload_with_rag *)
(***************************************************************************)
NumStr(i) == ToString(i)

format_context_for_injection(relevant_context, kb_snippets) ==
    LET code == IF relevant_context = <<>> THEN <<>>
                ELSE <<"=== RELEVANT CODE CONTEXT ===">>
                     \o ConcatAll([i \in 1..Len(relevant_context) |->
                           <<"Context " \o NumStr(i) \o ":", relevant_context[i], "">>])
        kb == IF kb_snippets = <<>> THEN <<>>
              ELSE <<"=== OPTIMIZATION KNOWLEDGE BASE ===">>
                   \o ConcatAll([i \in 1..Len(kb_snippets) |->
                         <<"Knowledge " \o NumStr(i) \o ":", kb_snippets[i], "">>])
    IN  Join(code \o kb, "\n")

CharsPerToken == 4
TruncationMarker == "\n\n[Context truncated due to token limit]"
Instruction ==
    "\n\nBased on the above context, please provide your analysis and recommendations.\n"

\* a truncation that also fires when the context fits exactly
TruncateAtOrOver(context_text, max_context_tokens) ==
    IF Len(context_text) >= max_context_tokens * CharsPerToken
    THEN PySlice(context_text, max_context_tokens * CharsPerToken) \o TruncationMarker
    ELSE context_text

\* context_text after the truncation to max_context_tokens * 4 characters.
Truncate(context_text, max_context_tokens) ==
    LET max_context_chars == max_context_tokens * CharsPerToken
    IN  IF Len(context_text) > max_context_chars
        THEN PySlice(context_text, max_context_chars) \o TruncationMarker
        ELSE context_text

RagAddition(context_text) == "\n\n" \o context_text \o Instruction

\* a role test that forgets the value of the role
IsUserAnyRole(message) == "role" \in DOMAIN message

IsUser(message) == "role" \in DOMAIN message /\ message.role = "user"

\* a scan from the front instead of from the end
FirstUser(messages) ==
    LET users == {i \in 1..Len(messages) : IsUser(messages[i])}
    IN  IF users = {} THEN 0 ELSE CHOOSE i \in users : \A j \in users : i <= j

\* The index the reversed scan stops at: the last message with role "user"
\* (0: none).
LastUser(messages) ==
    LET users == {i \in 1..Len(messages) : IsUser(messages[i])}
    IN  IF users = {} THEN 0 ELSE CHOOSE i \in users : \A j \in users : j <= i

MaxPayloadSnippets == 4
MaxKbSnippets == 3

(***************************************************************************)
(* json.dump / json.load of a payload: the text is the opening brace, one  *)
(* member per key, the closing brace.  A text that does not end with the   *)
(* closing brace does not parse.                                           *)
(***************************************************************************)
Member(key, value) == [key |-> key, value |-> value]
OpenBrace == Member("{", <<>>)
CloseBrace == Member("}", <<>>)

Dump(payload) ==
    LET present == SelectSeq(PayloadKeys, LAMBDA k : k \in DOMAIN payload)
    IN  <<OpenBrace>>
        \o [i \in 1..Len(present) |-> Member(present[i], payload[present[i]])]
        \o <<CloseBrace>>

Parses(text) ==
    /\ Len(text) >= 2
    /\ text[1] = OpenBrace
    /\ text[Len(text)] = CloseBrace
    /\ \A i \in 2..(Len(text) - 1) : text[i].key \notin {"{", "}"}

Load(text) ==
    LET members == {i \in 2..(Len(text) - 1) : TRUE}
        keys == {text[i].key : i \in members}
    IN  [k \in keys |-> text[CHOOSE i \in members : text[i].key = k].value]

(***************************************************************************)
(* The keyword extraction.  extract_sql_keywords, extract_java_keywords    *)
(* and extract_content_keywords pick substrings of the payload's texts     *)
(* with regular expressions; the model lets them return any set of tokens  *)
(* of TokenPool that occur in those texts (every result of the regular     *)
(* expressions over this pool is one of these sets).                       *)
(***************************************************************************)
TokenPool == {"USERS", "42", "id"}

PayloadTexts(payload) ==
    LET q == Section(payload, "queries")
        m == Section(payload, "messages")
        r == Section(payload, "repositories")
        e == Section(payload, "entities")
    IN  {Get(q[i], "sql", "") : i \in 1..Len(q)}
        \cup {Get(q[i], "method_name", "") : i \in 1..Len(q)}
        \cup {Get(m[i], "content", "") : i \in 1..Len(m)}
        \cup {PyStr(r[i]) : i \in 1..Len(r)}
        \cup {PyStr(e[i]) : i \in 1..Len(e)}

ExtractedSets(payload) ==
    SUBSET {t \in TokenPool :
               \E text \in PayloadTexts(payload) : Count(Lower(text), Lower(t)) > 0}

\* an extraction without the update of line 54
ExtractWithoutBaseline(extracted) == normalize_keywords(extracted)

\* extract_keywords_from_payload, given what the extractors found
extract_keywords_from_payload(extracted) ==
    normalize_keywords(extracted \cup BaselineTerms)

(***************************************************************************)
(* enrich_payload_with_rag as a function of the stored payload text, the   *)
(* budget, the extracted tokens, the cache and the knowledge-base file.    *)
(* The result records the locals of the run, what the file holds after it  *)
(* and the returned value.                                                 *)
(***************************************************************************)
NoPayload == [none |-> <<>>]

Injected(payload, rag_addition) ==
    LET messages == payload.messages
        i == LastUser(messages)
    IN  IF i = 0 THEN payload
        ELSE [payload EXCEPT !.messages =
                 [messages EXCEPT ![i] =
                     [@ EXCEPT !.content = @ \o rag_addition]]]

\* message['content'] += ... raises KeyError on a message without content
InjectionRaises(payload) ==
    LET i == LastUser(payload.messages)
    IN  i > 0 /\ "content" \notin DOMAIN payload.messages[i]

RunResult(status, cache, text, ret, locals) ==
    [status |-> status, cache |-> cache, text |-> text, ret |-> ret, locals |-> locals]

NoLocals(keywords) ==
    [keywords |-> keywords, relevant_context |-> <<>>, kb_snippets |-> <<>>,
     read |-> NoPayload, adds |-> FALSE, formatted |-> "", context_text |-> ""]

\* lines 349-354: write the payload back and return it
EnrichWrite(cache, locals, payload) ==
    RunResult("returned", cache, Dump(payload), payload, locals)

\* lines 326-347: inject into the last user message, if there is context
EnrichInject(text, cache, locals) ==
    IF locals.adds /\ InjectionRaises(locals.read)
    THEN RunResult("raised", cache, text, NoPayload, locals)
    ELSE EnrichWrite(cache, locals,
                     IF locals.adds
                     THEN Injected(locals.read, RagAddition(locals.context_text))
                     ELSE locals.read)

\* lines 330-336: format and truncate the context
EnrichFormat(text, max_context_tokens, cache, found, formatted) ==
    EnrichInject(text, cache,
                 [found EXCEPT !.formatted = formatted,
                               !.context_text = Truncate(formatted, max_context_tokens)])

\* lines 321-326: read the payload again and decide whether context is added
EnrichLoad(text, max_context_tokens, cache, keywords, relevant_context, kb_snippets, payload) ==
    IF (relevant_context # <<>> \/ kb_snippets # <<>>) /\ "messages" \in DOMAIN payload
    THEN EnrichFormat(text, max_context_tokens, cache,
                      [NoLocals(keywords) EXCEPT !.relevant_context = relevant_context,
                           !.kb_snippets = kb_snippets, !.read = payload, !.adds = TRUE],
                      format_context_for_injection(relevant_context, kb_snippets))
    ELSE EnrichInject(text, cache,
                      [NoLocals(keywords) EXCEPT !.relevant_context = relevant_context,
                           !.kb_snippets = kb_snippets, !.read = payload])

\* lines 313-319: the two searches; the second one loads the cache
EnrichSearch(text, max_context_tokens, cache, keywords) ==
    EnrichLoad(text, max_context_tokens, cache, keywords,
               search_payload_context(keywords, Load(text), MaxPayloadSnippets),
               SearchChunks(keywords, cache.chunks, MaxKbSnippets),
               Load(text))

\* lines 306-311: no keywords, no enrichment
EnrichKeywords(text, max_context_tokens, cache, file, keywords) ==
    IF keywords = {}
    THEN RunResult("skipped", cache, text, NoPayload, NoLocals(keywords))
    ELSE IF LoadRaises(cache, file)
    THEN RunResult("raised", cache, text, NoPayload, NoLocals(keywords))
    ELSE EnrichSearch(text, max_context_tokens, CacheAfterLoad(cache, file), keywords)

EnrichRun(text, max_context_tokens, extracted, cache, file) ==
    EnrichKeywords(text, max_context_tokens, cache, file,
                   extract_keywords_from_payload(extracted))

(***************************************************************************)
(* State.                                                                  *)
(***************************************************************************)
VARIABLES
    kb_chunks,   \* the global _kb_chunks
    kb_files,    \* the knowledge-base files, by path
    temp_file,   \* the text of the payload file optimize_sql hands to the enrichment
    pc,          \* where optimize_sql stands
    request,     \* the payload and max_context_tokens of the request being served
    run,         \* the last run of enrich_payload_with_rag: status, locals, result
    response,    \* what optimize_sql answered last
    call,        \* the arguments of a direct call of one of the functions
    result,      \* what that call returned
    log,         \* the calls of load_and_chunk_knowledge_base so far
    ctx          \* the execution contexts inside load_and_chunk_knowledge_base

vars == <<kb_chunks, kb_files, temp_file, pc, request, run, response, call, result,
          log, ctx>>

DefaultKbPath == "knowledgeBase/info.txt"
OtherKbPath == "knowledgeBase/other.txt"
KbPaths == {DefaultKbPath, OtherKbPath}

None == [none |-> TRUE]
Idle == "idle"

(***************************************************************************)
(* Inputs.                                                                 *)
(***************************************************************************)
MaxMsgs == 2
NegTokens == 1
MaxTokens == 20
DefaultMaxContextTokens == 200000

UserMessage == [role |-> "user", content |-> "optimize this"]
AssistantMessage == [role |-> "assistant", content |-> "which users query?"]
BrokenUserMessage == [role |-> "user"]
MessageKinds == {UserMessage, AssistantMessage, BrokenUserMessage}

SeqsUpTo(S, n) == UNION {[1..k -> S] : k \in 0..n}

MessageChoices == SeqsUpTo(MessageKinds, MaxMsgs)

PlainQuery == [sql |-> "SELECT 42"]
UsersQuery == [sql |-> "SELECT name FROM users WHERE id=1", method_name |-> "findUserById"]
UserRepository == [name |-> "UserRepo", content |-> "interface UserRepo { List find(); }"]
UserEntity == [name |-> "User", content |-> "@Entity class User { Long id; }"]

CodeChoices ==
    { <<>>,
      [queries |-> <<PlainQuery>>],
      [queries |-> <<UsersQuery>>, repositories |-> <<UserRepository>>,
       entities |-> <<UserEntity>>] }

\* f extended with key |-> value
With(f, key, value) ==
    [k \in DOMAIN f \cup {key} |-> IF k = key THEN value ELSE f[k]]

PayloadChoices ==
    CodeChoices \cup {With(c, "messages", m) : c \in CodeChoices, m \in MessageChoices}

TokenChoices == (-NegTokens..MaxTokens) \cup {DefaultMaxContextTokens}

KbText ==
    "Add an index on the users columns that appear in WHERE clauses.\n\n"
    \o "too short\n\n"
    \o "Prefer batch fetching over lazy loading when a query walks a collection."

KbFileChoices == {Missing, FileOf(KbText)}

(***************************************************************************)
(* optimize_sql (main.py) around enrich_payload_with_rag.                  *)
(***************************************************************************)
NoFile == <<>>

InitCommon ==
    /\ kb_chunks = Unset
    /\ temp_file = NoFile
    /\ pc = Idle
    /\ request = None
    /\ run = None
    /\ response = None
    /\ result = None
    /\ log = <<>>

Init ==
    /\ InitCommon
    /\ ctx = None
    /\ call = None
    /\ \E f \in KbFileChoices :
           kb_files = [p \in KbPaths |-> IF p = DefaultKbPath THEN f ELSE Missing]

\* optimize_sql, lines 13-18: the payload goes to a temporary file
Receive(payload, max_context_tokens) ==
    /\ pc = Idle
    /\ temp_file' = Dump(payload)
    /\ request' = [payload |-> payload, max_context_tokens |-> max_context_tokens]
    /\ run' = None
    /\ response' = None
    /\ pc' = "saved"
    /\ UNCHANGED <<kb_chunks, kb_files, call, result, log, ctx>>

\* optimize_sql, line 21: the whole of enrich_payload_with_rag
Enrich ==
    /\ pc = "saved"
    /\ \E extracted \in ExtractedSets(request.payload) :
       \E r \in {EnrichRun(temp_file, request.max_context_tokens, extracted,
                           kb_chunks, kb_files[DefaultKbPath])} :
           /\ kb_chunks' = r.cache
           /\ temp_file' = r.text
           /\ run' = [status |-> r.status, ret |-> r.ret, locals |-> r.locals,
                      before |-> temp_file]
           /\ pc' = IF r.status = "raised" THEN "failed" ELSE "enriched"
    /\ UNCHANGED <<kb_files, request, response, call, result, log, ctx>>

\* optimize_sql, lines 23-30: read the file back and unlink it
ReadBack ==
    /\ pc = "enriched"
    /\ response' = [status |-> 200, enriched_payload |-> Load(temp_file)]
    /\ temp_file' = NoFile
    /\ pc' = "answered"
    /\ UNCHANGED <<kb_chunks, kb_files, request, run, call, result, log, ctx>>

\* optimize_sql, lines 32-34: any exception becomes HTTP 500; the temporary
\* file is not unlinked
Fail ==
    /\ pc = "failed"
    /\ response' = [status |-> 500, enriched_payload |-> <<>>]
    /\ pc' = "answered"
    /\ UNCHANGED <<kb_chunks, kb_files, temp_file, request, run, call, result, log, ctx>>

\* The answer leaves; the locals of the request are gone.
Return ==
    /\ pc = "answered"
    /\ request' = None
    /\ run' = None
    /\ response' = None
    /\ temp_file' = NoFile
    /\ pc' = Idle
    /\ UNCHANGED <<kb_chunks, kb_files, call, result, log, ctx>>

Next ==
    \/ \E payload \in PayloadChoices, t \in TokenChoices : Receive(payload, t)
    \/ Enrich
    \/ ReadBack
    \/ Fail
    \/ Return

Spec == Init /\ [][Next]_vars

(***************************************************************************)
(* Properties of enrich_payload_with_rag (specification Spec).             *)
(***************************************************************************)
\* The run of enrich_payload_with_rag is over and its locals are still there.
RunOver == pc \in {"enriched", "failed"}

ReadPayload == Load(run.before)
Messages(payload) == Section(payload, "messages")
\* the positions of the messages whose role is "user", and the last of them
UserPositions(messages) ==
    {i \in 1..Len(messages) : Get(messages[i], "role", "") = "user"}
LastPosition(S) == IF S = {} THEN 0 ELSE CHOOSE i \in S : \A j \in S : j <= i
HasUser(payload) == UserPositions(Messages(payload)) # {}
Changed(old, new) == {i \in 1..Len(old) : old[i] # new[i]}
IsPrefix(p, t) == Len(p) <= Len(t) /\ SubSeq(t, 1, Len(p)) = p
SameButMessages(old, new) ==
    /\ DOMAIN old = DOMAIN new
    /\ \A k \in DOMAIN old \ {"messages"} : old[k] = new[k]

InjectedRun == RunOver /\ run.status = "returned" /\ run.locals.adds /\ HasUser(ReadPayload)

\* C1: when context is injected into a payload that has user messages, the
\* addition is appended to the content of the last user message only: its old
\* content is a prefix of the new one, exactly one message differs, every
\* other message and every other key is written back as read, and the
\* returned payload is the written one.
C1_InjectsLastUserOnly ==
    InjectedRun =>
        LET old == Messages(ReadPayload)
            new == Messages(Load(temp_file))
            last == LastPosition(UserPositions(old))
        IN  /\ SameButMessages(ReadPayload, Load(temp_file))
            /\ Len(new) = Len(old)
            /\ Changed(old, new) = {last}
            /\ new[last].role = "user"
            /\ new[last].content
                 = old[last].content \o RagAddition(run.locals.context_text)
            /\ IsPrefix(old[last].content, new[last].content)
            /\ run.ret = Load(temp_file)

\* Two user messages were read and only the second one grew.
C1_Witness ==
    /\ InjectedRun
    /\ Cardinality(UserPositions(Messages(ReadPayload))) >= 2
    /\ Messages(Load(temp_file))[1] = Messages(ReadPayload)[1]
    /\ Messages(Load(temp_file))[2] # Messages(ReadPayload)[2]

NothingToInject ==
    \/ ~HasUser(ReadPayload)
    \/ (run.locals.relevant_context = <<>> /\ run.locals.kb_snippets = <<>>)

\* C2: with no message of role "user" (or no messages key), or with both
\* searches empty, the run ends without an error and writes back and returns
\* exactly the payload it read.
C2_NoTargetNoChange ==
    (RunOver /\ NothingToInject) =>
        /\ run.status = "returned"
        /\ temp_file = run.before
        /\ Load(temp_file) = ReadPayload
        /\ run.ret = ReadPayload

\* Context was found, the payload has messages, none of them from the user.
C2_Witness ==
    /\ RunOver
    /\ run.locals.adds
    /\ Messages(ReadPayload) # <<>>
    /\ ~HasUser(ReadPayload)
    /\ temp_file = run.before

Budget == request.max_context_tokens * CharsPerToken
MarkerLen == Len(TruncationMarker)
\* the part of context_text in front of the marker
Kept == SubSeq(run.locals.context_text, 1, Len(run.locals.context_text) - MarkerLen)

TruncationRule ==
    IF Len(run.locals.formatted) > Budget
    THEN /\ run.locals.context_text = Kept \o TruncationMarker
         /\ IsPrefix(Kept, run.locals.formatted)
         /\ Len(Kept) <= Budget
    ELSE run.locals.context_text = run.locals.formatted

\* C5 as stated: for every integer max_context_tokens the marker is appended
\* exactly when the formatted context is longer than max_context_tokens * 4,
\* and what precedes the marker is at most that many characters long.
C5_AsStated == (RunOver /\ run.locals.adds) => TruncationRule

\* C5, amended: the same for every max_context_tokens >= 0; for a negative
\* max_context_tokens the marker is appended too, and what precedes it is the
\* formatted context without its last -budget characters.
C5_TruncatesToBudget ==
    (RunOver /\ run.locals.adds) =>
        IF request.max_context_tokens >= 0 THEN TruncationRule
        ELSE /\ run.locals.context_text = Kept \o TruncationMarker
             /\ IsPrefix(Kept, run.locals.formatted)
             /\ Len(Kept) = Max(0, Len(run.locals.formatted) + Budget)

\* max_context_tokens = 1: the context is cut to 4 characters before the marker
C5_Witness ==
    /\ InjectedRun
    /\ request.max_context_tokens = 1
    /\ Len(run.locals.formatted) > 4
    /\ Len(Kept) = 4
    /\ run.locals.context_text = Kept \o TruncationMarker

\* C10: the keyword list of every run holds the seven baseline terms, so it is
\* never empty, the empty-keywords return is never taken, and every run that
\* does not raise writes the payload file back and returns the payload.
C10_KeywordsNeverEmpty ==
    RunOver =>
        /\ BaselineTerms \subseteq run.locals.keywords
        /\ run.locals.keywords # {}
        /\ run.status # "skipped"
        /\ run.status # "raised" =>
               (run.status = "returned" /\ temp_file = Dump(run.ret))

\* A payload without any of the four keys: the keywords are the baseline terms
C10_Witness ==
    /\ RunOver
    /\ DOMAIN request.payload = {}
    /\ run.locals.keywords = BaselineTerms
    /\ run.status = "returned"

(***************************************************************************)
(* Direct calls of search_payload_context and search_knowledge_base        *)
(* (specification SpecRank): Init draws the arguments, one action applies  *)
(* the function.                                                           *)
(***************************************************************************)
MaxRepos == 2
MaxQueries == 2
MaxSnippets == 3

RECURSIVE Rep(_, _)
Rep(s, n) ==
    IF n = 0 THEN "" ELSE IF n = 1 THEN s
    ELSE Rep(s, n \div 2) \o Rep(s, n - n \div 2)

ShortRepository == [name |-> "UserRepo", content |-> "find users by index"]
LongRepository ==
    [name |-> "AuditRepo",
     content |-> Rep("int audit_col; ", 30) \o "list users by index"]
LongQuery ==
    [sql |-> "SELECT " \o Rep("o.total_amount, ", 30) \o "o.id FROM orders o",
     method_name |-> "findOrders"]

RankPayloadChoices ==
    {[repositories |-> r, entities |-> e, queries |-> q] :
        r \in SeqsUpTo({ShortRepository, LongRepository}, MaxRepos),
        e \in {<<UserEntity>>},
        q \in SeqsUpTo({UsersQuery, LongQuery}, MaxQueries)}
    \cup {<<>>, [queries |-> <<[sql |-> "SELECT id FROM users"]>>],
          [repositories |-> <<[content |-> "class Plain {}"], ShortRepository>>]}

RankKeywordChoices == {{}, BaselineTerms, BaselineTerms \cup {"users"}}

RankKbText ==
    "Use batch inserts for bulk writes; the driver groups the statements.\n\n"
    \o "An index on users speeds up every query that filters on users.\n\n"
    \o "Keep transactions short so that locks are released early enough.\n\n"
    \o "Review each query plan before adding another index on a table.\n\n"
    \o "A covering index answers the query without touching the table."

RankCalls ==
    {[fn |-> "search_payload_context", keywords |-> k, payload |-> p, max_snippets |-> n] :
        k \in RankKeywordChoices, p \in RankPayloadChoices, n \in 0..MaxSnippets}
    \cup
    {[fn |-> "search_knowledge_base", keywords |-> k, kb_file |-> f, max_snippets |-> n] :
        k \in RankKeywordChoices, f \in KbPaths, n \in 0..MaxSnippets}

InitRank ==
    /\ InitCommon
    /\ ctx = None
    /\ kb_files \in {[p \in KbPaths |-> IF p = DefaultKbPath THEN FileOf(RankKbText) ELSE f] :
                        f \in {Missing, FileOf(KbText)}}
    /\ call \in RankCalls

Returned(snippets) == [snippets |-> snippets]

\* search_payload_context(keywords, payload_json_path, max_snippets)
SearchPayload ==
    /\ result = None
    /\ call.fn = "search_payload_context"
    /\ result' = Returned(search_payload_context(call.keywords, call.payload,
                                                 call.max_snippets))
    /\ UNCHANGED <<kb_chunks, kb_files, temp_file, pc, request, run, response, call,
                   log, ctx>>

\* search_knowledge_base(keywords, kb_file, max_snippets); its call of
\* load_and_chunk_knowledge_base fills the cache
SearchKb ==
    /\ result = None
    /\ call.fn = "search_knowledge_base"
    /\ \E cache \in {CacheAfterLoad(kb_chunks, kb_files[call.kb_file])} :
          /\ kb_chunks' = cache
          /\ result' = Returned(SearchChunks(call.keywords, cache.chunks,
                                             call.max_snippets))
    /\ UNCHANGED <<kb_files, temp_file, pc, request, run, response, call, log, ctx>>

NextRank == SearchPayload \/ SearchKb

SpecRank == InitRank /\ [][NextRank]_vars

\* Every entry the called search scores, in encounter order.
Entries ==
    IF call.fn = "search_payload_context"
    THEN PayloadScored(call.keywords, call.payload)
    ELSE ChunkScored(call.keywords, kb_chunks.chunks)

Positive(E) == {k \in 1..Len(E) : E[k].score > 0}

\* Entry j goes before entry k: a higher score, or the same score and an
\* earlier encounter.
GoesBefore(E, j, k) ==
    E[j].score > E[k].score \/ (E[j].score = E[k].score /\ j < k)

\* The place of entry k among the entries with a score > 0.
Place(E, k) == 1 + Cardinality({j \in Positive(E) : GoesBefore(E, j, k)})

RankedTopN(E, out, max_snippets) ==
    /\ Len(out) = Min(max_snippets, Cardinality(Positive(E)))
    /\ \A k \in Positive(E) : Place(E, k) <= Len(out) => out[Place(E, k)] = E[k].snippet

\* C7: both searches return the entries with a score > 0, at most
\* max_snippets of them, by non-increasing score, entries of equal score in
\* encounter order: the entry at place i of that order is returned at
\* position i, and the entries left out are those at the places after
\* max_snippets (so none of them has a higher score than a returned one).
C7_RankedTopN ==
    result # None => RankedTopN(Entries, result.snippets, call.max_snippets)

TieKeptInOrder(E, out, max_snippets) ==
    /\ \E j, k \in Positive(E) :
          /\ j < k
          /\ E[j].score = E[k].score
          /\ E[j].snippet # E[k].snippet
          /\ Place(E, k) <= Len(out)
          /\ Place(E, k) = Place(E, j) + 1
    /\ Cardinality(Positive(E)) > max_snippets
    /\ Positive(E) # 1..Len(E)

\* Two different entries with the same score are both returned, in encounter
\* order, while an entry with a score > 0 and one with score 0 are left out.
C7_Witness ==
    result # None /\ TieKeptInOrder(Entries, result.snippets, call.max_snippets)

\* The payload entry behind place k, with its label.
Kind(payload, k) ==
    LET nr == Len(Section(payload, "repositories"))
        ne == Len(Section(payload, "entities"))
    IN  IF k <= nr
        THEN [label |-> "Repository: ", cut |-> TRUE,
              item |-> Section(payload, "repositories")[k]]
        ELSE IF k <= nr + ne
        THEN [label |-> "Entity: ", cut |-> TRUE,
              item |-> Section(payload, "entities")[k - nr]]
        ELSE [label |-> "Query: ", cut |-> FALSE,
              item |-> Section(payload, "queries")[k - nr - ne]]

LabelLine(kind) ==
    kind.label \o Get(kind.item, IF kind.cut THEN "name" ELSE "method_name", "Unknown")
    \o "\n"

\* The text of the block behind its label line.
Body(block, kind) == SubSeq(block, Len(LabelLine(kind)) + 1, Len(block))

\* The returned blocks, each with the entry it was built from.
ReturnedBlocks(E, out, payload) ==
    {[block |-> out[Place(E, k)], kind |-> Kind(payload, k)] :
        k \in {j \in Positive(E) : Place(E, j) <= Len(out)}}

PayloadSearched == result # None /\ call.fn = "search_payload_context"

AtMostSnippetChars(b, body) ==
    /\ IsPrefix(LabelLine(b.kind), b.block)
    /\ Len(body) <= SnippetChars + Len("...")

\* C6 as stated: every returned block, of a repository, an entity or a query,
\* is its label followed by at most 400 characters of text (and the "...").
C6_AsStated ==
    PayloadSearched =>
        \A b \in ReturnedBlocks(Entries, result.snippets, call.payload) :
            AtMostSnippetChars(b, Body(b.block, b.kind))

CutButQueries(b, body, text) ==
    /\ IsPrefix(LabelLine(b.kind), b.block)
    /\ IF b.kind.cut
       THEN /\ Len(body) = Min(SnippetChars, Len(text)) + Len("...")
            /\ IsPrefix(SubSeq(body, 1, Len(body) - Len("...")), text)
            /\ SubSeq(body, Len(body) - Len("...") + 1, Len(body)) = "..."
       ELSE body = "SQL: " \o Get(b.kind.item, "sql", "")
                   \o " Method: " \o Get(b.kind.item, "method_name", "")

\* C6, amended: a returned block of a repository or an entity is its label,
\* the first 400 characters of the stringified entry and "..."; a returned
\* block of a query is its label and the whole "SQL: ... Method: ..." text,
\* however long.
C6_BlocksCutButQueries ==
    PayloadSearched =>
        \A b \in ReturnedBlocks(Entries, result.snippets, call.payload) :
            CutButQueries(b, Body(b.block, b.kind), PyStr(b.kind.item))

CutBesideWhole(blocks) ==
    /\ \E b \in blocks :
          /\ b.kind.cut
          /\ Len(PyStr(b.kind.item)) > SnippetChars
          /\ Len(Body(b.block, b.kind)) = SnippetChars + Len("...")
    /\ \E b \in blocks :
          /\ ~b.kind.cut
          /\ Len(Body(b.block, b.kind)) > SnippetChars + Len("...")

\* A repository block cut at 400 characters beside a query block that is
\* longer than that.
C6_Witness ==
    PayloadSearched /\ CutBesideWhole(ReturnedBlocks(Entries, result.snippets, call.payload))

(***************************************************************************)
(* chunk_knowledge_base applied to texts of one to three paragraphs.       *)
(***************************************************************************)
MaxWords == 8
MaxChunkSize == 4

ChunkWord(i) == "paragraph" \o NumStr(i)

\* n different words, separated by sep
WordsText(n, sep) == Join([i \in 1..n |-> ChunkWord(i)], sep)

DroppedParagraph == "too short"
TwoWordParagraph == "supercalifragilisticexpialidocious antidisestablishmentarianism"

Layouts(text) ==
    {text,
     DroppedParagraph \o "\n\n" \o text,
     TwoWordParagraph \o "\n \n" \o text \o "\n\n\n" \o text}

ChunkCall(content, chunk_size, overlap) ==
    [fn |-> "chunk_knowledge_base", content |-> content, chunk_size |-> chunk_size,
     overlap |-> overlap]

ChunkCalls ==
    {ChunkCall(content, chunk_size, overlap) :
        content \in UNION {Layouts(WordsText(n, sep)) :
                              n \in (MaxChunkSize + 1)..MaxWords, sep \in {" ", "\n"}},
        chunk_size \in 1..MaxChunkSize,
        overlap \in 0..(MaxChunkSize - 1)}

\* one paragraph of 620 words, cut with the defaults 300 and 50
ExampleCall == ChunkCall(WordsText(620, " "), DefaultChunkSize, DefaultOverlap)

InitChunk ==
    /\ InitCommon
    /\ ctx = None
    /\ kb_files = [p \in KbPaths |-> Missing]
    /\ call \in {c \in ChunkCalls : c.overlap < c.chunk_size} \cup {ExampleCall}

Chunked(chunks) == [chunks |-> chunks]

\* chunk_knowledge_base(content, chunk_size, overlap)
Chunk ==
    /\ result = None
    /\ call.fn = "chunk_knowledge_base"
    /\ result' = Chunked(chunk_knowledge_base(call.content, call.chunk_size, call.overlap))
    /\ UNCHANGED <<kb_chunks, kb_files, temp_file, pc, request, run, response, call,
                   log, ctx>>

NextChunk == Chunk

SpecChunk == InitChunk /\ [][NextChunk]_vars

\* The paragraphs that are kept, as sequences of words.
KeptWords(content) ==
    LET kept == SelectSeq(Paragraphs(content),
                          LAMBDA p : Len(Strip(p)) >= MinParagraphChars)
    IN  [i \in 1..Len(kept) |-> Words(kept[i])]

\* The window starts 0, step, 2*step, ... below n.
StartsBelow(n, step) == {i \in 0..(n - 1) : i % step = 0}

ChunkCount(words, chunk_size, step) ==
    IF Len(words) <= chunk_size THEN 1 ELSE Cardinality(StartsBelow(Len(words), step))

\* For every kept paragraph of more than chunk_size words: its words and the
\* chunks that stand for it in the result, each as a sequence of words.
LongParagraphs(kept, chunks, chunk_size, step) ==
    LET count == [i \in 1..Len(kept) |-> ChunkCount(kept[i], chunk_size, step)]
        first == [i \in 1..Len(kept) |-> 1 + SumOver(1..(i - 1), count)]
    IN  {[words |-> kept[i],
          chunks |-> [j \in 1..Min(count[i], Len(chunks) - first[i] + 1) |->
                         Words(chunks[first[i] + j - 1])]] :
            i \in {k \in 1..Len(kept) : Len(kept[k]) > chunk_size}}

\* The last m words of a are the first m words of b.
Shares(a, b, m) ==
    /\ m <= Len(a)
    /\ m <= Len(b)
    /\ SubSeq(a, Len(a) - m + 1, Len(a)) = SubSeq(b, 1, m)

WindowsAt(p, chunk_size, step) ==
    /\ Len(p.chunks) = Cardinality(StartsBelow(Len(p.words), step))
    /\ \A j \in 1..Len(p.chunks) :
          /\ p.chunks[j] = SubSeq(p.words, (j - 1) * step + 1,
                                  Min((j - 1) * step + chunk_size, Len(p.words)))
          /\ Len(p.chunks[j]) <= chunk_size

WordCounts(chunks) == [j \in 1..Len(chunks) |-> Len(Words(chunks[j]))]

ChunkedCall == result # None /\ call.fn = "chunk_knowledge_base"

IsExample == call = ExampleCall

AsStatedRule(long, chunks, chunk_size, overlap) ==
    /\ \A p \in long :
          /\ WindowsAt(p, chunk_size, chunk_size - overlap)
          /\ \A j \in 1..(Len(p.chunks) - 1) : Shares(p.chunks[j], p.chunks[j + 1], overlap)
    /\ IsExample => WordCounts(chunks) = <<300, 300, 20>>

\* C8 as stated: the chunks of a long paragraph are the windows at 0, step,
\* 2*step, ..., of at most chunk_size words each, every chunk shares overlap
\* words with the next one, and 620 words at 300/50 give 300, 300 and 20 words.
C8_AsStated ==
    ChunkedCall =>
        AsStatedRule(LongParagraphs(KeptWords(call.content), result.chunks,
                                    call.chunk_size, call.chunk_size - call.overlap),
                     result.chunks, call.chunk_size, call.overlap)

WindowRule(long, chunks, chunk_size, overlap) ==
    /\ \A p \in long :
          /\ WindowsAt(p, chunk_size, chunk_size - overlap)
          /\ \A j \in 1..(Len(p.chunks) - 1) :
                Shares(p.chunks[j], p.chunks[j + 1], Min(overlap, Len(p.chunks[j + 1])))
    /\ IsExample => WordCounts(chunks) = <<300, 300, 120>>

\* C8, amended (0 <= overlap < chunk_size): the chunks of a long paragraph are
\* the windows at 0, step, 2*step, ... below the word count, of at most
\* chunk_size words each; a chunk shares with the next one overlap words, or
\* the whole next chunk when that one is shorter than overlap; and 620 words
\* at 300/50 give 300, 300 and 120 words.
C8_WindowsShareUpToOverlap ==
    ChunkedCall =>
        WindowRule(LongParagraphs(KeptWords(call.content), result.chunks,
                                  call.chunk_size, call.chunk_size - call.overlap),
                   result.chunks, call.chunk_size, call.overlap)

ShortLastChunk(long, overlap) ==
    \E p \in long :
        /\ Len(p.chunks) >= 3
        /\ Len(p.chunks[Len(p.chunks)]) < overlap
        /\ Len(p.chunks[1]) > overlap

\* A long paragraph cut in three or more chunks, the last of them shorter
\* than overlap.
C8_Witness ==
    /\ ChunkedCall
    /\ ShortLastChunk(LongParagraphs(KeptWords(call.content), result.chunks,
                                     call.chunk_size, call.chunk_size - call.overlap),
                      call.overlap)

(***************************************************************************)
(* A process that calls load_and_chunk_knowledge_base and                  *)
(* search_knowledge_base again and again while the files change.           *)
(***************************************************************************)
MaxCalls == 3

OtherKbText ==
    "Use a covering index so that the users query never touches the table."

LoadFileChoices ==
    [p \in KbPaths |-> IF p = DefaultKbPath
                       THEN {Missing, Unreadable, FileOf(KbText), FileOf(OtherKbText)}
                       ELSE {Missing, FileOf(OtherKbText)}]

SearchKeywords == BaselineTerms \cup {"users"}

InitLoad ==
    /\ InitCommon
    /\ ctx = None
    /\ call = None
    /\ kb_files \in [KbPaths -> {Missing, Unreadable, FileOf(KbText), FileOf(OtherKbText)}]
    /\ \A p \in KbPaths : kb_files[p] \in LoadFileChoices[p]

\* One call as the caller saw it: what it was given, whether it opened the
\* file, whether it raised, and what it returned.
Called(fn, path, cache, file, after, snippets) ==
    [fn |-> fn, path |-> path, file |-> file, reads |-> ReadsFile(cache),
     raised |-> LoadRaises(cache, file), chunks |-> after.chunks, snippets |-> snippets]

\* load_and_chunk_knowledge_base(kb_file)
LoadKb(path) ==
    /\ Len(log) < MaxCalls
    /\ \E after \in {CacheAfterLoad(kb_chunks, kb_files[path])} :
          /\ kb_chunks' = after
          /\ log' = Append(log, Called("load_and_chunk_knowledge_base", path, kb_chunks,
                                       kb_files[path], after, <<>>))
    /\ UNCHANGED <<kb_files, temp_file, pc, request, run, response, call, result, ctx>>

\* search_knowledge_base(keywords, kb_file, 3)
SearchKbAgain(path) ==
    /\ Len(log) < MaxCalls
    /\ \E after \in {CacheAfterLoad(kb_chunks, kb_files[path])} :
          /\ kb_chunks' = after
          /\ log' = Append(log, Called("search_knowledge_base", path, kb_chunks,
                                       kb_files[path], after,
                                       IF LoadRaises(kb_chunks, kb_files[path]) THEN <<>>
                                       ELSE SearchChunks(SearchKeywords, after.chunks,
                                                         MaxKbSnippets)))
    /\ UNCHANGED <<kb_files, temp_file, pc, request, run, response, call, result, ctx>>

\* Somebody else creates, rewrites, removes or locks a file.
Rewrite(path, file) ==
    /\ Len(log) < MaxCalls
    /\ file # kb_files[path]
    /\ kb_files' = [kb_files EXCEPT ![path] = file]
    /\ UNCHANGED <<kb_chunks, temp_file, pc, request, run, response, call, result, log,
                   ctx>>

NextLoad ==
    \/ \E path \in KbPaths : LoadKb(path)
    \/ \E path \in KbPaths : SearchKbAgain(path)
    \/ \E path \in KbPaths : \E file \in LoadFileChoices[path] : Rewrite(path, file)

SpecLoad == InitLoad /\ [][NextLoad]_vars

\* The calls that returned, and the first of them.
ReturnedCalls == {i \in 1..Len(log) : ~log[i].raised}
FirstOf(S) == CHOOSE i \in S : \A j \in S : i <= j

\* From call f on, the chunks are those of call f and no file is opened.
CachedFrom(f) ==
    \A i \in (f + 1)..Len(log) :
        /\ ~log[i].reads
        /\ ~log[i].raised
        /\ log[i].chunks = log[f].chunks

\* A call f that found no file raised nothing and cached the empty sequence,
\* and no search from then on returns a snippet.
MissingDegrades(f) ==
    ~log[f].file.exists =>
        /\ ~log[f].raised
        /\ log[f].chunks = <<>>
        /\ \A i \in f..Len(log) : log[i].snippets = <<>>

\* C3 as stated: only the first call reads the file, every later call returns
\* the sequence the first call cached, and a file missing at the first call
\* raises nothing and leaves every search without snippets.
C3_AsStated ==
    log # <<>> => log[1].reads /\ CachedFrom(1) /\ MissingDegrades(1)

\* C3, amended: the calls read the file up to the first call that returns,
\* which is the first call unless the file is there and cannot be read: such
\* a call raises and caches nothing. Every call after the first returning one
\* opens no file and returns that call's sequence, whatever its path and
\* whatever the files hold by then; a missing file raises nothing, and when
\* the first returning call found none, the empty sequence is cached and no
\* search returns a snippet.
C3_CachedByFirstReturn ==
    /\ \A i \in 1..Len(log) :
          /\ log[i].raised => log[i].reads /\ log[i].file.exists /\ ~log[i].file.readable
          /\ (\A j \in 1..(i - 1) : log[j].raised) => log[i].reads
    /\ ReturnedCalls # {} =>
          /\ CachedFrom(FirstOf(ReturnedCalls))
          /\ MissingDegrades(FirstOf(ReturnedCalls))
          /\ \A i \in 1..(FirstOf(ReturnedCalls) - 1) : log[i].snippets = <<>>

\* The first call found no file; later a load of another path, whose file
\* holds text by then, and a search both get the cached empty sequence.
C3_Witness ==
    /\ Len(log) >= 3
    /\ ~log[1].file.exists
    /\ \E i, j \in 2..Len(log) :
          /\ log[i].fn = "load_and_chunk_knowledge_base"
          /\ log[i].path # log[1].path
          /\ log[i].file.readable
          /\ log[i].chunks = <<>>
          /\ log[j].fn = "search_knowledge_base"
          /\ log[j].file.readable
          /\ log[j].snippets = <<>>

(***************************************************************************)
(* load_and_chunk_knowledge_base run by several execution contexts at      *)
(* once, one statement at a time.                                          *)
(***************************************************************************)
MaxContexts == 2

Contexts == 1..MaxContexts

NotCalled ==
    [pc |-> "idle", path |-> DefaultKbPath, saw_unset |-> FALSE, content |-> "",
     returned |-> <<>>, at |-> 0]

InitRace ==
    /\ InitCommon
    /\ call = None
    /\ ctx = [c \in Contexts |-> NotCalled]
    /\ kb_files \in [KbPaths -> {Missing, Unreadable, FileOf(KbText), FileOf(OtherKbText)}]
    /\ \A p \in KbPaths : kb_files[p] \in LoadFileChoices[p]

\* a load that looks at the cache once more before it opens the file
OpensIfStillUnset(saw_unset, cache) == saw_unset /\ ~cache.loaded

\* lines 247-249: what was seen at the test decides; the cache is not looked
\* at again
Opens(saw_unset, cache) == saw_unset

Others == <<temp_file, pc, request, run, response, call, result>>

\* line 244: a context enters load_and_chunk_knowledge_base(kb_file)
CallLoad(c, path) ==
    /\ ctx[c].pc = "idle"
    /\ ctx' = [ctx EXCEPT ![c].pc = "test", ![c].path = path]
    /\ UNCHANGED <<kb_chunks, kb_files, log, Others>>

\* line 247: if _kb_chunks is None
TestCache(c) ==
    /\ ctx[c].pc = "test"
    /\ ctx' = [ctx EXCEPT ![c].saw_unset = ReadsFile(kb_chunks),
                          ![c].pc = IF ReadsFile(kb_chunks) THEN "open" ELSE "return"]
    /\ UNCHANGED <<kb_chunks, kb_files, log, Others>>

\* lines 249-250: open and read the file
OpenAndRead(c) ==
    /\ ctx[c].pc = "open"
    /\ ctx' = [ctx EXCEPT
                 ![c].content = kb_files[ctx[c].path].content,
                 ![c].pc = IF ~Opens(ctx[c].saw_unset, kb_chunks) THEN "return"
                           ELSE IF ~kb_files[ctx[c].path].exists THEN "except"
                           ELSE IF ~kb_files[ctx[c].path].readable THEN "raised"
                           ELSE "assign"]
    /\ UNCHANGED <<kb_chunks, kb_files, log, Others>>

Assigned(c, chunks) == [ctx |-> c, chunks |-> chunks]

\* line 251: _kb_chunks = chunk_knowledge_base(content)
AssignChunks(c) ==
    /\ ctx[c].pc = "assign"
    /\ \E chunks \in {chunk_knowledge_base(ctx[c].content, DefaultChunkSize,
                                           DefaultOverlap)} :
          /\ kb_chunks' = Cached(chunks)
          /\ log' = Append(log, Assigned(c, chunks))
    /\ ctx' = [ctx EXCEPT ![c].pc = "return"]
    /\ UNCHANGED <<kb_files, Others>>

\* lines 253-255: except FileNotFoundError: _kb_chunks = []
AssignEmpty(c) ==
    /\ ctx[c].pc = "except"
    /\ kb_chunks' = Cached(<<>>)
    /\ log' = Append(log, Assigned(c, <<>>))
    /\ ctx' = [ctx EXCEPT ![c].pc = "return"]
    /\ UNCHANGED <<kb_files, Others>>

\* line 256: return _kb_chunks, the global as it is now
ReturnChunks(c) ==
    /\ ctx[c].pc = "return"
    /\ ctx' = [ctx EXCEPT ![c].returned = kb_chunks.chunks, ![c].at = Len(log),
                          ![c].pc = "done"]
    /\ UNCHANGED <<kb_chunks, kb_files, log, Others>>

\* Somebody else creates, rewrites, removes or locks a file meanwhile.
Replace(path, file) ==
    /\ \E c \in Contexts : ctx[c].pc \notin {"done", "raised"}
    /\ file # kb_files[path]
    /\ kb_files' = [kb_files EXCEPT ![path] = file]
    /\ UNCHANGED <<kb_chunks, ctx, log, Others>>

NextRace ==
    \/ \E c \in Contexts, path \in KbPaths : CallLoad(c, path)
    \/ \E c \in Contexts : TestCache(c)
    \/ \E c \in Contexts : OpenAndRead(c)
    \/ \E c \in Contexts : AssignChunks(c)
    \/ \E c \in Contexts : AssignEmpty(c)
    \/ \E c \in Contexts : ReturnChunks(c)
    \/ \E path \in KbPaths : \E file \in LoadFileChoices[path] : Replace(path, file)

SpecRace == InitRace /\ [][NextRace]_vars

AssignmentsOf(c) == {i \in 1..Len(log) : log[i].ctx = c}

PastAssignment(c) == ctx[c].pc \in {"return", "done"}

\* C9: nothing guards the cache. Every context that saw the cache unset and
\* did not raise assigns the cache itself, once, whatever the other contexts
\* have assigned since its test, so the cache is assigned as many times as
\* contexts saw it unset; and a context returns what the cache holds when it
\* returns, the latest assignment, not necessarily what it read.
C9_EveryUnsetObserverAssigns ==
    /\ \A c \in Contexts :
          /\ PastAssignment(c) =>
                Cardinality(AssignmentsOf(c)) = IF ctx[c].saw_unset THEN 1 ELSE 0
          /\ ctx[c].pc = "done" =>
                ctx[c].at >= 1 /\ ctx[c].returned = log[ctx[c].at].chunks
    /\ Len(log) = Cardinality({c \in Contexts : PastAssignment(c) /\ ctx[c].saw_unset})

\* Two contexts both saw the cache unset, both read the file and both
\* assigned the cache; the file changed between the two reads and the two
\* callers hold different sequences.
C9_Witness ==
    \E c, d \in Contexts :
        /\ c # d
        /\ ctx[c].pc = "done" /\ ctx[d].pc = "done"
        /\ ctx[c].saw_unset /\ ctx[d].saw_unset
        /\ ctx[c].path = ctx[d].path
        /\ ctx[c].content # ctx[d].content
        /\ AssignmentsOf(c) # {} /\ AssignmentsOf(d) # {}
        /\ ctx[c].returned # <<>> /\ ctx[d].returned # <<>>
        /\ ctx[c].returned # ctx[d].returned

(***************************************************************************)
(* optimize_sql with the failures of the file system: the reads of the     *)
(* payload file, the read of the knowledge base, and the write-back of     *)
(* lines 350-351, which opens the payload file for writing (emptying it)   *)
(* and then writes the new text piece by piece.                            *)
(***************************************************************************)
FailPayloadChoices ==
    {p \in PayloadChoices : "messages" \in DOMAIN p => Len(p.messages) <= 1}

InitFail ==
    /\ InitCommon
    /\ ctx = None
    /\ call = None
    /\ \E f \in {Missing, Unreadable, FileOf(KbText)} :
           kb_files = [p \in KbPaths |-> IF p = DefaultKbPath THEN f ELSE Missing]

Running(status, ret, locals, before, pending) ==
    [status |-> status, ret |-> ret, locals |-> locals, before |-> before,
     pending |-> pending]

\* lines 177, 322 (and the open of extract_keywords_from_payload): the payload
\* file cannot be read
ReadFails ==
    /\ pc = "saved"
    /\ run' = Running("raised", NoPayload, NoLocals({}), temp_file, temp_file)
    /\ pc' = "failed"
    /\ UNCHANGED <<kb_chunks, kb_files, temp_file, request, response, call, result, log,
                   ctx>>

\* lines 307-347: everything before the write-back
Compute ==
    /\ pc = "saved"
    /\ \E extracted \in ExtractedSets(request.payload) :
       \E r \in {EnrichRun(temp_file, request.max_context_tokens, extracted,
                           kb_chunks, kb_files[DefaultKbPath])} :
           /\ kb_chunks' = r.cache
           /\ run' = Running(r.status, r.ret, r.locals, temp_file, r.text)
           /\ pc' = IF r.status = "raised" THEN "failed"
                    ELSE IF r.status = "skipped" THEN "enriched"
                    ELSE "open"
    /\ UNCHANGED <<kb_files, temp_file, request, response, call, result, log, ctx>>

\* line 350: open(payload_json_path, 'w') empties the file
OpenWrite ==
    /\ pc = "open"
    /\ temp_file' = NoFile
    /\ pc' = "dump"
    /\ UNCHANGED <<kb_chunks, kb_files, request, run, response, call, result, log, ctx>>

\* line 350: the open itself fails
OpenFails ==
    /\ pc = "open"
    /\ pc' = "failed"
    /\ UNCHANGED <<kb_chunks, kb_files, temp_file, request, run, response, call, result,
                   log, ctx>>

\* line 351: json.dump writes the next piece
WritePiece ==
    /\ pc = "dump"
    /\ Len(temp_file) < Len(run.pending)
    /\ temp_file' = Append(temp_file, run.pending[Len(temp_file) + 1])
    /\ UNCHANGED <<kb_chunks, kb_files, pc, request, run, response, call, result, log,
                   ctx>>

\* line 351: a write fails (the device is full, the file system is gone)
WriteFails ==
    /\ pc = "dump"
    /\ Len(temp_file) < Len(run.pending)
    /\ pc' = "failed"
    /\ UNCHANGED <<kb_chunks, kb_files, temp_file, request, run, response, call, result,
                   log, ctx>>

\* lines 351-354: everything is written, the file is closed
CloseWrite ==
    /\ pc = "dump"
    /\ temp_file = run.pending
    /\ pc' = "enriched"
    /\ UNCHANGED <<kb_chunks, kb_files, temp_file, request, run, response, call, result,
                   log, ctx>>

NextFail ==
    \/ \E payload \in FailPayloadChoices : Receive(payload, DefaultMaxContextTokens)
    \/ ReadFails
    \/ Compute
    \/ OpenWrite
    \/ OpenFails
    \/ WritePiece
    \/ WriteFails
    \/ CloseWrite
    \/ ReadBack
    \/ Fail
    \/ Return

SpecFail == InitFail /\ [][NextFail]_vars

\* The caller has been told of a failure, or is about to be.
Failed == pc = "failed" \/ (pc = "answered" /\ response.status = 500)

\* C4: whenever the enrichment has failed, the payload file holds the whole
\* original payload or the whole enriched payload.
C4_FailureLeavesWholePayload ==
    Failed => temp_file = run.before \/ (Parses(temp_file) /\ temp_file = run.pending)

====
